---- MODULE Spec2Model ----
(***************************************************************************)
(* Traffic severity prediction dashboard: the prediction engine            *)
(* (model_loader.py), the bounded prediction history (utils.py) and the    *)
(* page script that drives them (app.py, components.py).                   *)
(*                                                                         *)
(* Units.  The widgets produce floats on a fixed grid; the model keeps     *)
(* them as integers on that grid: longitude and latitude in 1e-4 degree,   *)
(* distance in tenths of a km (slider step 0.1), temperature in tenths of  *)
(* a degree, pressure in tenths of a hPa, humidity in percent, hour as is, *)
(* time_duration in minutes (slider step 1.0).                             *)
(***************************************************************************)
EXTENDS Integers, Sequences, FiniteSets, TLC

VARIABLES
    modelFile,      \* src/model/traffic_severity_model.pkl on disk
    scalerFile,     \* src/model/scaler.pkl on disk
    modelDir,       \* whether the directory src/model exists
    modelCache,     \* st.cache_resource entry of load_model
    scalerCache,    \* st.cache_resource entry of load_scaler
    current_page,   \* st.session_state.current_page
    features,       \* the values of the eight input widgets
    predictions,    \* st.session_state.predictions
    now,            \* datetime.now(), in seconds
    severity_class, \* what predict_severity returned in the last script run
    call,           \* what the last script run did (operation, error, reads)
    view,           \* what the History page drew in the last script run
    appended        \* history variable: every record save_prediction appended

vars == <<modelFile, scalerFile, modelDir, modelCache, scalerCache, current_page,
          features, predictions, now, severity_class, call, view, appended>>

----------------------------------------------------------------------------
(* Bounds of the model *)

\* records saved in one behaviour of Spec
MaxSaved == 2
\* records saved in one behaviour of SpecHistory (more than the cap)
MaxAppends == 52
\* last second of the clock
MaxClock == 1
\* records saved in one behaviour of SpecStats (the correlations need 5)
MaxRows == 5

----------------------------------------------------------------------------
(* config.py *)

\* Python's None, as returned by predict_severity on failure
None == -1

PAGES == {"Predict", "History", "About"}

DEFAULT_VALUES ==
    [longitude |-> -739857, latitude |-> 407484, distance |-> 50,
     temperature |-> 250, humidity |-> 65, pressure |-> 10130,
     hour |-> 12, time_duration |-> 30]

\* PARAMETER_RANGES, on the grid of each widget
Hours == 0..23

SEVERITY_CLASSES == 0..3

\* variant: a class without an entry gets the label of the highest class
SeverityLabel_Clamped(c) ==
    CASE c = 0 -> "Minimal"
      [] c = 1 -> "Minor"
      [] c = 2 -> "Moderate"
      [] OTHER -> "Severe"

SeverityLabel(c) ==
    CASE c = 0 -> "Minimal"
      [] c = 1 -> "Minor"
      [] c = 2 -> "Moderate"
      [] c = 3 -> "Severe"
      [] OTHER -> "Unknown"

\* 10 km and 30 km on the distance grid (tenths of a km)
Km(x) == x * 10

----------------------------------------------------------------------------
(* Artifacts.  A file is missing, unreadable by pickle, or holds an object; *)
(* what the object does when used is fixed by the file's content.           *)

\* classifier objects: one that predicts a class in 0..3, one whose
\* prediction is outside 0..3, one whose predict raises on some inputs
Classifiers == {"clf", "clf_wild", "clf_raises"}
\* scaler objects: a fitted StandardScaler, one whose transform raises
Scalers == {"fitted", "scaler_raises"}

ModelFiles == {"missing", "corrupt"} \cup Classifiers
ScalerFiles == {"missing", "corrupt"} \cup Scalers

\* load_model: None when the file is absent or pickle.load raises
load_model(file) ==
    IF file = "missing" THEN "none"
    ELSE IF file = "corrupt" THEN "none"
    ELSE file

\* load_scaler: a new, unfitted StandardScaler when the file is absent or
\* pickle.load raises
load_scaler(file) ==
    IF file = "missing" THEN "unfitted"
    ELSE IF file = "corrupt" THEN "unfitted"
    ELSE file

\* variant: the folder is made outside the cached body, on every call that
\* finds no classifier file
makedirs_EveryCall(dir, cache, file) == dir \/ file = "missing"

\* load_model: os.makedirs(..., exist_ok=True) when the classifier file is
\* absent; the body runs only while nothing is cached
makedirs(dir, cache, file) == dir \/ (cache = "unset" /\ file = "missing")

\* variant: no memoization, the function body runs on every call
cache_resource_EveryCall(cache, value) == value

\* st.cache_resource: the function body runs on the first call only
cache_resource(cache, value) == IF cache = "unset" THEN value ELSE cache

\* the files a cached loader reads in a call
StorageRead(cache, name) == IF cache = "unset" THEN {name} ELSE {}

\* scaler.transform: check_is_fitted raises NotFittedError on an unfitted
\* StandardScaler
TransformRaises(scaler) == scaler \in {"unfitted", "scaler_raises"}

\* a fitted scaler centres each feature (mean of the training data taken as
\* DEFAULT_VALUES, unit variance)
Transform(x) == [f \in DOMAIN x |-> x[f] - DEFAULT_VALUES[f]]

\* model.predict raising: this classifier fails away from the hour it was
\* trained on
PredictRaises(model, z) == model = "clf_raises" /\ z.hour # 0

\* model.predict(normalized_features)[0], then int(prediction)
ModelPredict(model, z) ==
    IF model = "clf_wild" THEN 7
    ELSE IF z.time_duration > 30 THEN 3
    ELSE IF z.time_duration > 0 THEN 2
    ELSE IF z.distance < 0 THEN 1
    ELSE 0

----------------------------------------------------------------------------
(* model_loader.py: predict_severity *)

RushHours == {7, 8, 9, 16, 17, 18}

\* variant: the top rule fires at 60 minutes already
FallbackRules_From60(x) ==
    IF x.hour \in RushHours /\ x.distance < Km(10)
    THEN IF x.time_duration >= 60 THEN 3
         ELSE IF x.time_duration > 30 THEN 2
         ELSE 1
    ELSE IF x.distance > Km(30) \/ x.time_duration < 15 THEN 0
    ELSE 1

\* variant: the rush-hour rule does not look at the distance
FallbackRules_AnyDistance(x) ==
    IF x.hour \in RushHours
    THEN IF x.time_duration > 60 THEN 3
         ELSE IF x.time_duration > 30 THEN 2
         ELSE 1
    ELSE IF x.distance > Km(30) \/ x.time_duration < 15 THEN 0
    ELSE 1

\* variant: frost makes every incident one class worse
FallbackRules_Frost(x) ==
    LET c == IF x.hour \in RushHours /\ x.distance < Km(10)
             THEN IF x.time_duration > 60 THEN 3
                  ELSE IF x.time_duration > 30 THEN 2
                  ELSE 1
             ELSE IF x.distance > Km(30) \/ x.time_duration < 15 THEN 0
             ELSE 1
    IN  IF x.temperature < 0 /\ c < 3 THEN c + 1 ELSE c

\* the rule-based prediction used when model is None
FallbackRules(x) ==
    IF x.hour \in RushHours /\ x.distance < Km(10)
    THEN IF x.time_duration > 60 THEN 3
         ELSE IF x.time_duration > 30 THEN 2
         ELSE 1
    ELSE IF x.distance > Km(30) \/ x.time_duration < 15 THEN 0
    ELSE 1

\* except Exception: st.error(...); return None
OnException(err) == [result |-> None, err |-> err, path |-> "failed"]

\* variant: the handler answers with the rules instead of None
predict_severity_RulesOnError(x, model, scaler) ==
    IF model = "none" \/ TransformRaises(scaler)
          \/ PredictRaises(model, Transform(x))
    THEN [result |-> FallbackRules(x), err |-> "none", path |-> "fallback"]
    ELSE [result |-> ModelPredict(model, Transform(x)), err |-> "none",
          path |-> "model"]

\* variant: no branch for model is None, so None.predict raises
predict_severity_NoRules(x, model, scaler) ==
    IF TransformRaises(scaler) THEN OnException("scale")
    ELSE IF model = "none" \/ PredictRaises(model, Transform(x))
    THEN OnException("classify")
    ELSE [result |-> ModelPredict(model, Transform(x)), err |-> "none",
          path |-> "model"]

predict_severity(x, model, scaler) ==
    IF model = "none"
    THEN [result |-> FallbackRules(x), err |-> "none", path |-> "fallback"]
    ELSE IF TransformRaises(scaler) THEN OnException("scale")
    ELSE IF PredictRaises(model, Transform(x)) THEN OnException("classify")
    ELSE [result |-> ModelPredict(model, Transform(x)), err |-> "none",
          path |-> "model"]

----------------------------------------------------------------------------
(* utils.py: save_prediction *)

HistoryLimit == 50

PredictionRecord(x, c, t) ==
    [longitude |-> x.longitude, latitude |-> x.latitude, distance |-> x.distance,
     temperature |-> x.temperature, humidity |-> x.humidity,
     pressure |-> x.pressure, hour |-> x.hour, time_duration |-> x.time_duration,
     severity_class |-> c, severity_label |-> SeverityLabel(c), timestamp |-> t]

\* variant: the list is never trimmed
save_prediction_NoPop(store, record) == Append(store, record)

\* variant: pop() instead of pop(0), which drops the record just appended
save_prediction_PopNewest(store, record) ==
    LET added == Append(store, record)
    IN  IF Len(added) > HistoryLimit THEN SubSeq(added, 1, HistoryLimit) ELSE added

\* append, then pop(0) when the list is longer than 50
save_prediction(store, record) ==
    LET added == Append(store, record)
    IN  IF Len(added) > HistoryLimit THEN Tail(added) ELSE added

----------------------------------------------------------------------------
(* components.py: show_prediction_form, the branch on the result *)

\* variant: the record is saved whatever predict_severity returned
SaveIfPredicted_Always(store, result, record) == save_prediction(store, record)

\* if severity_class is not None: ... save_prediction(prediction_data)
SaveIfPredicted(store, result, record) ==
    IF result # None THEN save_prediction(store, record) ELSE store

----------------------------------------------------------------------------
(* utils.py: the History page's reading of the history.  A DataFrame is   *)
(* its rows in index order; a function that returns None has none = TRUE. *)

\* the keys of prediction_data in the order they are set, then timestamp:
\* the columns of pd.DataFrame(list of dicts)
RecordFields ==
    <<"longitude", "latitude", "distance", "temperature", "humidity", "pressure",
      "hour", "time_duration", "severity_class", "severity_label", "timestamp">>

NoFrame == [none |-> TRUE, rows |-> << >>]

\* variant: an empty history gives an empty frame
get_predictions_dataframe_EmptyFrame(store) == [none |-> FALSE, rows |-> store]

\* None for an empty history, else a frame with one row per record
get_predictions_dataframe(store) ==
    IF store = << >> THEN NoFrame ELSE [none |-> FALSE, rows |-> store]

Empty(df) == df.rows = << >>

\* variant: one row for each of the four classes, 0 where none occurs
value_counts_FourClasses(rows) ==
    [c \in 0..3 |->
        Cardinality({i \in DOMAIN rows : rows[i].severity_class = c})]

\* df["severity_class"].value_counts(): one row per class that occurs
value_counts(rows) ==
    LET classes == {rows[i].severity_class : i \in DOMAIN rows}
    IN  [c \in classes |->
            Cardinality({i \in DOMAIN rows : rows[i].severity_class = c})]

NoFigure == [none |-> TRUE, counts |-> << >>]

plot_prediction_history(df) ==
    IF df.none \/ Empty(df) THEN NoFigure
    ELSE [none |-> FALSE, counts |-> value_counts(df.rows)]

RECURSIVE SeqSum(_)
SeqSum(s) == IF s = << >> THEN 0 ELSE Head(s) + SeqSum(Tail(s))

\* Series.corr (Pearson), kept exact: the square of the coefficient as the
\* fraction num/den, NaN when either column is constant.  Both columns are
\* taken relative to their first value, which leaves the coefficient as it is.
corr(xs, ys) ==
    LET n == Len(xs)
        X == [i \in 1..n |-> xs[i] - xs[1]]
        Y == [i \in 1..n |-> ys[i] - ys[1]]
        sxy == SeqSum([i \in 1..n |-> X[i] * Y[i]])
        cov == n * sxy - SeqSum(X) * SeqSum(Y)
        vx == n * SeqSum([i \in 1..n |-> X[i] * X[i]]) - SeqSum(X) * SeqSum(X)
        vy == n * SeqSum([i \in 1..n |-> Y[i] * Y[i]]) - SeqSum(Y) * SeqSum(Y)
    IN  [nan |-> (vx = 0 \/ vy = 0), num |-> cov * cov, den |-> vx * vy]

params ==
    <<"longitude", "latitude", "distance", "temperature", "humidity", "pressure",
      "hour", "time_duration">>

\* variant: ascending=True
InFront_Ascending(a, b) == b.nan \/ (~a.nan /\ a.num * b.den <= b.num * a.den)

\* a stays in front of b in a descending sort that puts NaN last
InFront(a, b) == b.nan \/ (~a.nan /\ a.num * b.den >= b.num * a.den)

RECURSIVE Insert(_, _)
Insert(e, s) ==
    IF s = << >> THEN <<e>>
    ELSE IF InFront(Head(s), e) THEN <<Head(s)>> \o Insert(e, Tail(s))
    ELSE <<e>> \o s

\* corr_df.sort_values(by="Correlation", ascending=False)
RECURSIVE sort_values(_)
sort_values(s) ==
    IF s = << >> THEN << >>
    ELSE Insert(s[Len(s)], sort_values(SubSeq(s, 1, Len(s) - 1)))

corr_data(rows) ==
    [k \in 1..Len(params) |->
        LET c == corr([i \in 1..Len(rows) |-> rows[i][params[k]]],
                      [i \in 1..Len(rows) |-> rows[i].severity_class])
        IN  [Parameter |-> params[k], nan |-> c.nan, num |-> c.num, den |-> c.den]]

MinRows == 5

NoImportance == [none |-> TRUE, corr_df |-> << >>]

plot_parameter_importance(df) ==
    IF df.none \/ Empty(df) \/ Len(df.rows) < MinRows THEN NoImportance
    ELSE [none |-> FALSE, corr_df |-> sort_values(corr_data(df.rows))]

\* variant: header=False
to_csv_NoHeader(df) ==
    [i \in 1..Len(df.rows) |->
        [k \in 1..Len(RecordFields) |-> df.rows[i][RecordFields[k]]]]

\* df.to_csv(index=False): the header line, then one line per row, each
\* line the sequence of its cells
to_csv(df) ==
    <<RecordFields>> \o
    [i \in 1..Len(df.rows) |->
        [k \in 1..Len(RecordFields) |-> df.rows[i][RecordFields[k]]]]

NoLink == [none |-> TRUE, csv |-> << >>]

\* the link carries the csv text (base64 of it)
generate_download_link(df) ==
    IF df.none \/ Empty(df) THEN NoLink
    ELSE [none |-> FALSE, csv |-> to_csv(df)]

----------------------------------------------------------------------------
(* components.py: show_prediction_history.  Its result is what it draws     *)
(* and the session's list as it leaves it.                                  *)

NoView ==
    [page |-> "none", df |-> NoFrame, distribution |-> NoFigure,
     importance |-> NoImportance, download |-> NoLink]

\* variant: the table is sorted, most recent first, on the stored list itself
show_prediction_history_InPlace(store) ==
    LET df == get_predictions_dataframe(store)
    IN  [view |-> IF ~df.none /\ ~Empty(df)
                  THEN [page |-> "history", df |-> df,
                        distribution |-> plot_prediction_history(df),
                        importance |-> plot_parameter_importance(df),
                        download |-> generate_download_link(df)]
                  ELSE [NoView EXCEPT !.page = "no history", !.df = df],
         store |-> [i \in 1..Len(store) |-> store[Len(store) + 1 - i]]]

show_prediction_history(store) ==
    LET df == get_predictions_dataframe(store)
    IN  IF ~df.none /\ ~Empty(df)
        THEN [view |-> [page |-> "history", df |-> df,
                        distribution |-> plot_prediction_history(df),
                        importance |-> plot_parameter_importance(df),
                        download |-> generate_download_link(df)],
              store |-> store]
        ELSE [view |-> [NoView EXCEPT !.page = "no history", !.df = df],
              store |-> store]

\* app.py lines 36-41: the page the script draws after the sidebar
DrawPage(page, store) ==
    IF page = "History" THEN show_prediction_history(store)
    ELSE [view |-> NoView, store |-> store]

----------------------------------------------------------------------------
(* Inputs *)

\* the example vectors of the form: the defaults, rush hour near the
\* intersection for 75 minutes, the same 35 km away
FormInputs ==
    {DEFAULT_VALUES,
     [DEFAULT_VALUES EXCEPT !.hour = 8, !.time_duration = 75],
     [DEFAULT_VALUES EXCEPT !.hour = 8, !.time_duration = 75, !.distance = 350]}

\* the grid points around the thresholds of the rules, the ends of each
\* range, and two values of every other field
Distances == {1, 50, 99, 100, 300, 301, 350, 500}
Durations == {1, 14, 15, 30, 31, 60, 61, 75, 180}
Longitudes == {-739857, 0}
Latitudes == {407484, -900000}
Temperatures == {250, -300}
Humidities == {65, 100}
Pressures == {10130, 9500}

FeatureVectors ==
    [longitude : Longitudes, latitude : Latitudes, distance : Distances,
     temperature : Temperatures, humidity : Humidities, pressure : Pressures,
     hour : Hours, time_duration : Durations]

\* inputs one widget step away from the defaults, which a classifier
\* trained around the defaults tells apart
StatsInputs ==
    {DEFAULT_VALUES,
     [DEFAULT_VALUES EXCEPT !.time_duration = 31],
     [DEFAULT_VALUES EXCEPT !.distance = 49],
     [DEFAULT_VALUES EXCEPT !.hour = 13, !.humidity = 66]}

Idle(op) ==
    [op |-> op, err |-> "none", path |-> "none", reads |-> {}, mkdir |-> FALSE]

----------------------------------------------------------------------------
(* State machine *)

TypeOK ==
    /\ modelFile \in ModelFiles
    /\ scalerFile \in ScalerFiles
    /\ modelDir \in BOOLEAN
    /\ modelCache \in {"unset", "none"} \cup Classifiers
    /\ scalerCache \in {"unset", "unfitted"} \cup Scalers
    /\ current_page \in PAGES
    /\ now \in 0..MaxClock
    /\ severity_class \in Int
    /\ Len(predictions) <= Len(appended)

\* app.py lines 24-27: a new session of a new process
InitSession ==
    /\ modelCache = "unset"
    /\ scalerCache = "unset"
    /\ current_page = "Predict"
    /\ predictions = << >>
    /\ appended = << >>
    /\ now = 0
    /\ severity_class = None
    /\ call = Idle("start")
    /\ view = NoView

Init ==
    /\ modelFile \in ModelFiles
    /\ scalerFile \in ScalerFiles
    /\ modelDir \in BOOLEAN
    /\ (modelFile # "missing" \/ scalerFile # "missing") => modelDir
    /\ features = DEFAULT_VALUES
    /\ InitSession

\* the user moves the input widgets of the Predict page; the script reruns
ChooseInput(inputs) ==
    /\ current_page = "Predict"
    /\ \E x \in inputs : x # features /\ features' = x
    /\ severity_class' = None
    /\ call' = Idle("input")
    /\ UNCHANGED <<modelFile, scalerFile, modelDir, modelCache, scalerCache,
                   current_page, predictions, now, view, appended>>

SetInput == ChooseInput(FormInputs)

\* the user picks another page in the sidebar; widgets that are not drawn
\* lose their state and come back with their default values
Navigate ==
    /\ \E p \in PAGES :
          /\ p # current_page
          /\ current_page' = p
          /\ view' = DrawPage(p, predictions).view
          /\ predictions' = DrawPage(p, predictions).store
    /\ features' = DEFAULT_VALUES
    /\ severity_class' = None
    /\ call' = Idle("navigate")
    /\ UNCHANGED <<modelFile, scalerFile, modelDir, modelCache, scalerCache,
                   now, appended>>

\* the History page is drawn again (a rerun of the script on that page)
ViewHistory ==
    /\ current_page = "History"
    /\ view' = DrawPage(current_page, predictions).view
    /\ predictions' = DrawPage(current_page, predictions).store
    /\ severity_class' = None
    /\ call' = Idle("history")
    /\ UNCHANGED <<modelFile, scalerFile, modelDir, modelCache, scalerCache,
                   current_page, features, now, appended>>

\* the button "Predict Traffic Severity"
ClickPredict(limit) ==
    /\ current_page = "Predict"
    /\ Len(appended) < limit
    /\ LET model == cache_resource(modelCache, load_model(modelFile))
           scaler == cache_resource(scalerCache, load_scaler(scalerFile))
           reads == StorageRead(modelCache, "model")
                        \cup StorageRead(scalerCache, "scaler")
           out == predict_severity(features, model, scaler)
           record == PredictionRecord(features, out.result, now)
       IN  /\ modelCache' = model
           /\ scalerCache' = scaler
           /\ modelDir' = makedirs(modelDir, modelCache, modelFile)
           /\ severity_class' = out.result
           /\ call' = [op |-> "predict", err |-> out.err, path |-> out.path,
                       reads |-> reads,
                       mkdir |-> (makedirs(modelDir, modelCache, modelFile)
                                      # modelDir)]
           /\ predictions' = SaveIfPredicted(predictions, out.result, record)
           /\ appended' = IF out.result # None THEN Append(appended, record)
                                               ELSE appended
    /\ UNCHANGED <<modelFile, scalerFile, current_page, features, now, view>>

\* a second passes
Tick ==
    /\ now < MaxClock
    /\ now' = now + 1
    /\ severity_class' = None
    /\ call' = Idle("tick")
    /\ UNCHANGED <<modelFile, scalerFile, modelDir, modelCache, scalerCache,
                   current_page, features, predictions, view, appended>>

\* somebody installs, replaces or removes an artifact file
ChangeModelFile ==
    /\ \E s \in ModelFiles : s # modelFile /\ modelFile' = s
    /\ modelDir' = TRUE
    /\ severity_class' = None
    /\ call' = Idle("storage")
    /\ UNCHANGED <<scalerFile, modelCache, scalerCache, current_page, features,
                   predictions, now, view, appended>>

ChangeScalerFile ==
    /\ \E s \in ScalerFiles : s # scalerFile /\ scalerFile' = s
    /\ modelDir' = TRUE
    /\ severity_class' = None
    /\ call' = Idle("storage")
    /\ UNCHANGED <<modelFile, modelCache, scalerCache, current_page, features,
                   predictions, now, view, appended>>

\* somebody removes the empty folder src/model
RemoveModelDir ==
    /\ modelDir
    /\ modelFile = "missing"
    /\ scalerFile = "missing"
    /\ modelDir' = FALSE
    /\ severity_class' = None
    /\ call' = Idle("storage")
    /\ UNCHANGED <<modelFile, scalerFile, modelCache, scalerCache, current_page,
                   features, predictions, now, view, appended>>

Next ==
    \/ SetInput
    \/ Navigate
    \/ ViewHistory
    \/ ClickPredict(MaxSaved)
    \/ Tick
    \/ ChangeModelFile
    \/ ChangeScalerFile
    \/ RemoveModelDir

Spec == Init /\ [][Next]_vars

----------------------------------------------------------------------------
(* The history on its own: no artifact is installed, the inputs stay as    *)
(* the user left them, and the button is clicked more often than the       *)
(* history has room for.                                                   *)

InitHistory ==
    /\ modelFile = "missing"
    /\ scalerFile = "missing"
    /\ modelDir \in BOOLEAN
    /\ features \in FormInputs
    /\ InitSession

NextHistory ==
    \/ ClickPredict(MaxAppends)
    \/ Tick

SpecHistory == InitHistory /\ [][NextHistory]_vars

----------------------------------------------------------------------------
(* The rules on their own: one prediction, for every input vector of the   *)
(* grid, in a process that finds no usable classifier.                     *)

InitRules ==
    /\ modelFile \in {"missing", "corrupt"}
    /\ scalerFile = "missing"
    /\ modelDir = (modelFile # "missing")
    /\ features \in FeatureVectors
    /\ InitSession

NextRules == ClickPredict(1)

SpecRules == InitRules /\ [][NextRules]_vars

----------------------------------------------------------------------------
(* The History page on its own: a classifier and its scaler are installed, *)
(* the user saves up to MaxRows predictions and looks at the History page  *)
(* in between.                                                             *)

InitStats ==
    /\ modelFile = "clf"
    /\ scalerFile = "fitted"
    /\ modelDir = TRUE
    /\ features = DEFAULT_VALUES
    /\ InitSession

NextStats ==
    \/ ChooseInput(StatsInputs)
    \/ Navigate
    \/ ViewHistory
    \/ ClickPredict(MaxRows)

SpecStats == InitStats /\ [][NextStats]_vars

----------------------------------------------------------------------------
(* Properties *)

Min(a, b) == IF a < b THEN a ELSE b

\* the last n elements of s, or all of s when it has fewer
LastN(s, n) == SubSeq(s, Len(s) - Min(n, Len(s)) + 1, Len(s))

\* the last script run was a click that found no usable classifier
FallbackAnswered == call.op = "predict" /\ modelCache = "none"

RushBranch(x) == x.hour \in {7, 8, 9, 16, 17, 18} /\ x.distance < 100

\* C1: the history never holds more than 50 records, however many
\* predictions are saved into it.
C1_AtMostFifty == Len(predictions) <= 50

\* more than 50 records were saved and the history is full
C1_Witness == Len(appended) > 50 /\ Len(predictions) = 50

\* C2: after n saves the history is the last min(n, 50) saved records in the
\* order they were saved, and a save drops at most one record, the oldest,
\* and only from a history that already held 50.
C2_LastFiftyInOrder ==
    /\ [](predictions = LastN(appended, 50))
    /\ [][appended' # appended =>
            LET r == appended'[Len(appended')]
            IN  IF Len(predictions) = 50
                THEN predictions' = Append(Tail(predictions), r)
                ELSE predictions' = Append(predictions, r)]_vars

\* 51 records were saved, the first one is gone, and the ones kept are not
\* all alike
C2_Witness ==
    /\ Len(appended) = 51
    /\ Len(predictions) = 50
    /\ predictions[1] = appended[2]
    /\ predictions[50] = appended[51]
    /\ predictions[1] # predictions[50]

\* C3: with no classifier loaded, in rush hour and closer than 10 km the
\* answer is Severe above 60 minutes, Moderate above 30 and up to 60, and
\* Minor up to 30 minutes, durations under 15 included.
C3_RushHourRule ==
    (FallbackAnswered /\ RushBranch(features)) =>
        severity_class = (IF features.time_duration > 60 THEN 3
                          ELSE IF features.time_duration > 30 THEN 2
                          ELSE 1)

\* a rush-hour incident shorter than 15 minutes was answered Minor
C3_Witness ==
    /\ FallbackAnswered
    /\ RushBranch(features)
    /\ features.time_duration < 15
    /\ severity_class = 1

\* C4: with no classifier loaded, outside the rush-hour branch the answer is
\* Minimal when the distance is above 30 km or the duration under 15
\* minutes, and Minor otherwise.
C4_OtherwiseRule ==
    (FallbackAnswered /\ ~RushBranch(features)) =>
        severity_class = (IF features.distance > 300 \/ features.time_duration < 15
                          THEN 0 ELSE 1)

\* hour 8, 35 km, 75 minutes was answered Minimal
C4_Witness ==
    /\ FallbackAnswered
    /\ features.hour = 8
    /\ features.distance = 350
    /\ features.time_duration = 75
    /\ severity_class = 0

\* C10: with no classifier loaded the answer is a class in 0..3 and is the
\* answer to every vector with the same hour, distance and time_duration,
\* whatever its longitude, latitude, temperature, humidity and pressure.
C10_OnlyThreeFieldsCount ==
    FallbackAnswered =>
        /\ severity_class \in 0..3
        /\ \A lo \in Longitudes, la \in Latitudes, t \in Temperatures,
              h \in Humidities, p \in Pressures :
                predict_severity([features EXCEPT !.longitude = lo, !.latitude = la,
                                                  !.temperature = t, !.humidity = h,
                                                  !.pressure = p],
                                 modelCache, scalerCache).result = severity_class

\* an answer was given to a vector that differs from the defaults in all
\* five fields the rules leave out
C10_Witness ==
    /\ FallbackAnswered
    /\ features.longitude # DEFAULT_VALUES.longitude
    /\ features.latitude # DEFAULT_VALUES.latitude
    /\ features.temperature # DEFAULT_VALUES.temperature
    /\ features.humidity # DEFAULT_VALUES.humidity
    /\ features.pressure # DEFAULT_VALUES.pressure
    /\ severity_class \in 0..3

\* the step is a click on the button
Clicked == call'.op = "predict"

\* the step is the click that resolves the artifacts (the first of the process)
FirstClick == Clicked /\ modelCache = "unset" /\ scalerCache = "unset"

\* C5: when the classifier file, the scaler file or both are missing when
\* the artifacts are resolved, predict answers with the class of the
\* fallback rules, for every input.
C5_MissingFileMeansRules ==
    [][(FirstClick /\ (modelFile = "missing" \/ scalerFile = "missing")) =>
            /\ severity_class' = FallbackRules(features)
            /\ call'.path = "fallback"]_vars

\* C6 as claimed: when an artifact file does not deserialize, predict
\* returns None and the fallback rules are not applied.
C6_CorruptFileMeansFailure ==
    [][(FirstClick /\ (modelFile = "corrupt" \/ scalerFile = "corrupt")) =>
            /\ severity_class' = None
            /\ call'.path # "fallback"]_vars

\* C6 as the code has it: a classifier file that does not deserialize is
\* answered by the fallback rules, never by None; None is returned for a
\* file that does not deserialize only when the classifier loaded and the
\* file is the scaler's, and then nothing is saved.
C6_CorruptClassifierMeansRules ==
    [][FirstClick =>
            /\ modelFile = "corrupt" =>
                  /\ severity_class' = FallbackRules(features)
                  /\ severity_class' \in 0..3
                  /\ call'.path = "fallback"
            /\ (modelFile \in Classifiers /\ scalerFile = "corrupt") =>
                  /\ severity_class' = None
                  /\ call'.path = "failed"
                  /\ predictions' = predictions]_vars

\* the classifier file was corrupt when the process resolved it, and the
\* click was answered by the rules and saved
C6_Witness ==
    /\ call.op = "predict"
    /\ call.reads = {"model", "scaler"}
    /\ modelFile = "corrupt"
    /\ modelCache = "none"
    /\ call.path = "fallback"
    /\ severity_class \in 0..3
    /\ Len(predictions) = 1

\* C7: with a classifier loaded, a click whose scaling or classification
\* raises is answered None, never with a class and never by the rules.
C7_ErrorMeansNone ==
    (/\ call.op = "predict"
     /\ modelCache \in Classifiers
     /\ \/ TransformRaises(scalerCache)
        \/ PredictRaises(modelCache, Transform(features)))
    => /\ severity_class = None
       /\ call.path = "failed"

\* a loaded classifier raised on scaled input and the answer was None
C7_Witness ==
    /\ call.op = "predict"
    /\ modelCache = "clf_raises"
    /\ scalerCache = "fitted"
    /\ call.err = "classify"
    /\ severity_class = None

\* C8: the artifacts are resolved once per process: a resolved cache entry
\* never changes, a later click reads no artifact file, and whether it is
\* answered by the rules or by the classifier follows the cache, not the
\* files as they are by then.
C8_LoadedOnce ==
    [][/\ modelCache # "unset" => modelCache' = modelCache
       /\ scalerCache # "unset" => scalerCache' = scalerCache
       /\ (Clicked /\ modelCache # "unset") =>
              /\ call'.reads = {}
              /\ (call'.path = "fallback") <=> (modelCache = "none")
       /\ Clicked => (modelCache' # "unset" /\ scalerCache' # "unset")]_vars

\* a classifier was installed after the process had found none, and the
\* click was still answered by the rules without reading a file
C8_Witness ==
    /\ call.op = "predict"
    /\ call.reads = {}
    /\ modelCache = "none"
    /\ modelFile \in Classifiers
    /\ scalerFile \in Scalers
    /\ call.path = "fallback"

\* C9: a click answered with a class appends exactly one record, holding
\* the inputs, that class and its label; a click answered None, and every
\* step that is not a click, leaves the history as it was.
C9_OneRecordPerAnswer ==
    [][IF Clicked /\ severity_class' # None
       THEN /\ Len(predictions') = Min(Len(predictions) + 1, 50)
            /\ \A i \in 1..(Len(predictions') - 1) :
                   predictions'[i] = predictions[i + Len(predictions) + 1
                                                   - Len(predictions')]
            /\ LET r == predictions'[Len(predictions')]
               IN  /\ \A f \in DOMAIN features : r[f] = features[f]
                   /\ r.severity_class = severity_class'
                   /\ r.timestamp = now
       ELSE predictions' = predictions]_vars

\* a click was answered None after an earlier one had been saved
C9_Witness ==
    /\ call.op = "predict"
    /\ severity_class = None
    /\ Len(predictions) = 1
    /\ predictions[1].severity_class # None

\* C11 as claimed: a click's call of predict changes neither an artifact
\* file nor the folder that holds them, and by itself adds nothing to the
\* history (a click answered None leaves the history as it was).
C11_PredictTouchesNoStorage ==
    [][Clicked =>
            /\ modelFile' = modelFile
            /\ scalerFile' = scalerFile
            /\ modelDir' = modelDir
            /\ severity_class' = None => predictions' = predictions]_vars

\* C11 as the code has it: predict never changes an artifact file or, by
\* itself, the history; the one thing it does to storage is to make the
\* folder src/model, and only in the call that resolves the classifier, when
\* the classifier file is missing and the folder does not exist.
C11_PredictOnlyMakesFolder ==
    [][Clicked =>
            /\ modelFile' = modelFile
            /\ scalerFile' = scalerFile
            /\ severity_class' = None => predictions' = predictions
            /\ modelDir' # modelDir =>
                  /\ modelCache = "unset"
                  /\ modelFile = "missing"
                  /\ ~modelDir
                  /\ modelDir'
            /\ call'.mkdir <=> (modelDir' # modelDir)]_vars

\* the first click of a process found neither file nor folder and made the
\* folder
C11_Witness ==
    /\ call.op = "predict"
    /\ call.mkdir
    /\ modelDir
    /\ modelFile = "missing"
    /\ call.reads = {"model", "scaler"}

\* the last script run drew the History page
HistoryDrawn == view.page # "none"

Descending(a, b) ==
    /\ a.nan => b.nan
    /\ (~a.nan /\ ~b.nan) => a.num * b.den >= b.num * a.den

Constant(column) == \A i, j \in DOMAIN column : column[i] = column[j]

\* C13: the correlations are not given at all for fewer than 5 records; for
\* 5 or more there is one entry per feature, in descending order of absolute
\* correlation (an entry without a defined correlation, a constant column,
\* comes after all the defined ones).
C13_CorrelationsFromFiveRows ==
    HistoryDrawn =>
        IF Len(predictions) < 5
        THEN view.importance.none /\ view.importance.corr_df = << >>
        ELSE LET c == view.importance.corr_df
             IN  /\ ~view.importance.none
                 /\ Len(c) = 8
                 /\ {c[i].Parameter : i \in 1..Len(c)} =
                        {"longitude", "latitude", "distance", "temperature",
                         "humidity", "pressure", "hour", "time_duration"}
                 /\ \A i, j \in 1..Len(c) : i < j => Descending(c[i], c[j])
                 /\ \A i \in 1..Len(c) :
                        c[i].nan <=>
                            \/ Constant([k \in DOMAIN predictions |->
                                            predictions[k][c[i].Parameter]])
                            \/ Constant([k \in DOMAIN predictions |->
                                            predictions[k].severity_class])

\* the page drew correlations for at least 5 records, two of them defined
\* and different
C13_Witness ==
    /\ HistoryDrawn
    /\ Len(predictions) >= 5
    /\ ~view.importance.none
    /\ \E i, j \in 1..Len(view.importance.corr_df) :
          LET a == view.importance.corr_df[i]
              b == view.importance.corr_df[j]
          IN  i < j /\ ~a.nan /\ ~b.nan /\ a.num * b.den > b.num * a.den

CsvHeader ==
    <<"longitude", "latitude", "distance", "temperature", "humidity", "pressure",
      "hour", "time_duration", "severity_class", "severity_label", "timestamp">>

CsvRow(r) ==
    <<r.longitude, r.latitude, r.distance, r.temperature, r.humidity, r.pressure,
      r.hour, r.time_duration, r.severity_class, r.severity_label, r.timestamp>>

CsvOf(store) == <<CsvHeader>> \o [i \in 1..Len(store) |-> CsvRow(store[i])]

\* C14 as claimed: for any number N >= 0 of records the export has N + 1
\* lines, the header with the 11 columns in order and one line per record in
\* insertion order.
C14_CsvHasHeaderAndRows ==
    HistoryDrawn =>
        /\ ~view.download.none
        /\ Len(view.download.csv) = Len(predictions) + 1
        /\ view.download.csv = CsvOf(predictions)

\* C14 as the code has it: the same for N >= 1; for an empty history no
\* export is produced at all, not even the header.
C14_CsvForNonEmptyHistory ==
    HistoryDrawn =>
        IF predictions = << >>
        THEN view.download.none /\ view.download.csv = << >>
        ELSE /\ ~view.download.none
             /\ Len(view.download.csv) = Len(predictions) + 1
             /\ view.download.csv = CsvOf(predictions)

\* an export of at least three records that are not all alike
C14_Witness ==
    /\ HistoryDrawn
    /\ Len(predictions) >= 3
    /\ Len(view.download.csv) = Len(predictions) + 1
    /\ view.download.csv[2] # view.download.csv[3]

\* the number of records of the history with class c
Occurrences(c) ==
    Cardinality({i \in DOMAIN predictions : predictions[i].severity_class = c})

\* the count the chart gives for class c: the height of its bar, nothing
\* where it has none
Reported(c) ==
    IF c \in DOMAIN view.distribution.counts
    THEN view.distribution.counts[c] ELSE 0

RECURSIVE Total(_, _)
Total(f, S) ==
    IF S = {} THEN 0
    ELSE LET c == CHOOSE c \in S : TRUE IN f[c] + Total(f, S \ {c})

\* C15 as claimed: for each class 0..3 the reported count is the number of
\* records of that class, and these four counts sum to the length of the
\* history.
C15_FourCountsSumToLength ==
    HistoryDrawn =>
        /\ \A c \in 0..3 : Reported(c) = Occurrences(c)
        /\ Reported(0) + Reported(1) + Reported(2) + Reported(3)
               = Len(predictions)

\* C15 as the code has it: the distribution has one count for each class
\* that occurs in the history and none for the others, whether or not the
\* class is one of 0..3; each count is the number of records of its class, and
\* all the counts together sum to the length. An empty history has no
\* distribution at all.
C15_CountsOfClassesPresent ==
    HistoryDrawn =>
        IF predictions = << >>
        THEN view.distribution.none
        ELSE LET counts == view.distribution.counts
             IN  /\ ~view.distribution.none
                 /\ DOMAIN counts = {predictions[i].severity_class :
                                        i \in DOMAIN predictions}
                 /\ \A c \in DOMAIN counts : counts[c] = Occurrences(c)
                 /\ Total(counts, DOMAIN counts) = Len(predictions)

\* the chart of a history of two records whose class is outside 0..3
C15_Witness ==
    /\ HistoryDrawn
    /\ ~view.distribution.none
    /\ Len(predictions) = 2
    /\ \E c \in DOMAIN view.distribution.counts :
          c \notin 0..3 /\ view.distribution.counts[c] = 2

\* C16: drawing the History page, on arriving there or again, leaves the
\* stored records as they are; the history changes only when a click on the
\* button is answered, and then by the append of save_prediction.
C16_ReadsLeaveStoreAlone ==
    [][/\ (call'.op \in {"navigate", "history"} \/ current_page' = "History")
              => predictions' = predictions
       /\ predictions' # predictions
              => /\ Clicked
                 /\ severity_class' # None
                 /\ predictions' \in
                        {Append(predictions, predictions'[Len(predictions')]),
                         Tail(Append(predictions,
                                     predictions'[Len(predictions')]))}]_vars

\* the History page was drawn again over two records saved at different
\* times, which are still in the order they were saved in
C16_Witness ==
    /\ call.op = "history"
    /\ HistoryDrawn
    /\ Len(predictions) = 2
    /\ predictions = appended
    /\ predictions[1].timestamp < predictions[2].timestamp

====
